---- MODULE Spec2Model ----
(***************************************************************************)
(* Model of neotest_python/djangotest.py: DjangoNeotestAdapter.            *)
(*                                                                         *)
(* Strings are sequences of one-character strings.  The operators of       *)
(* posixpath / str used by the adapter are written out as CPython          *)
(* computes them (POSIX: os.sep = "/", os.extsep = ".").                   *)
(*                                                                         *)
(*   SpecArgs : id_to_unittest_args applied to bounded case identifiers.   *)
(*   Spec     : run(): translation of the identifier, then the result      *)
(*              callbacks Django's runner makes on NeotestTextTestResult,  *)
(*              then suite_result / return.                                *)
(***************************************************************************)
EXTENDS Integers, Sequences, FiniteSets, TLC

VARIABLES
    case_id,      \* args[-1]: the neotest case identifier handed to the adapter
    cwd,          \* os.getcwd()
    isFile,       \* what os.path.isfile answers for the path portion of case_id
    pc,           \* position of the call: "args"/"argsDone" | "start"/"running"/"returned"/"aborted"
    argv,         \* outcome of id_to_unittest_args: [raised, value]
    neo_results,  \* NeotestTextTestResult.neo_results: function from key to record
    streamed,     \* the calls received by the stream callback, in order: <<key, record>>
    returned,     \* what run() returned: [some, value]
    test,         \* the test case object the runner is executing (NoTest between tests)
    outcomes,     \* number of outcome callbacks the current test has received
    emits,        \* number of stream calls made while the current test was executing
    op,           \* name of the most recent step
    err,          \* traceback (err[2]) passed to the addFailure/addError being handled, <<>> between tests
    calls,        \* number of outcome callbacks the result object has received in this run
    done          \* completed test cases, in order: [test, emits, passed]

vars == <<case_id, cwd, isFile, pc, argv, neo_results, streamed, returned,
          test, outcomes, emits, op, err, calls, done>>

-----------------------------------------------------------------------------
(* Bounds *)

MaxComps == 3      \* path components of a generated identifier
MaxChildren == 2   \* "::" child segments of a generated identifier
MaxCalls == 2      \* outcome callbacks per run
MaxFrames == 2     \* frames of a traceback

-----------------------------------------------------------------------------
(* Strings *)

SEP == "/"
EXTSEP == "."

RECURSIVE Join(_, _)
\* sep.join(list)
Join(list, sep) ==
    IF list = <<>> THEN <<>>
    ELSE IF Len(list) = 1 THEN list[1]
    ELSE list[1] \o sep \o Join(Tail(list), sep)

RECURSIVE SplitRec(_, _, _, _, _)
SplitRec(s, sep, i, cur, acc) ==
    IF i > Len(s) THEN Append(acc, cur)
    ELSE IF i + Len(sep) - 1 <= Len(s) /\ SubSeq(s, i, i + Len(sep) - 1) = sep
         THEN SplitRec(s, sep, i + Len(sep), <<>>, Append(acc, cur))
         ELSE SplitRec(s, sep, i + 1, Append(cur, s[i]), acc)

\* s.split(sep): left to right, non-overlapping
Split(s, sep) == SplitRec(s, sep, 1, <<>>, <<>>)

\* s.replace(old, new) for one-character old and new
Replace(s, old, new) == [i \in 1..Len(s) |-> IF s[i] = old THEN new ELSE s[i]]

\* s.rfind(c): 1-based index of the last occurrence, 0 when absent
RFind(s, c) ==
    LET hits == {i \in 1..Len(s) : s[i] = c}
    IN  IF hits = {} THEN 0 ELSE CHOOSE i \in hits : \A j \in hits : j <= i

StartsWith(s, p) == Len(s) >= Len(p) /\ SubSeq(s, 1, Len(p)) = p

SelectNonEmpty(list) == SelectSeq(list, LAMBDA x : x # <<>>)

-----------------------------------------------------------------------------
(* posixpath *)

RECURSIVE NormComps(_, _, _)
\* the loop of posixpath.normpath over the "/"-split components
NormComps(comps, initial, new) ==
    IF comps = <<>> THEN new
    ELSE LET comp == Head(comps)
             rest == Tail(comps)
         IN  IF comp = <<>> \/ comp = <<".">> THEN NormComps(rest, initial, new)
             ELSE IF comp # <<".", ".">>
                     \/ (initial = 0 /\ new = <<>>)
                     \/ (new # <<>> /\ new[Len(new)] = <<".", ".">>)
                  THEN NormComps(rest, initial, Append(new, comp))
                  ELSE IF new # <<>>
                       THEN NormComps(rest, initial, SubSeq(new, 1, Len(new) - 1))
                       ELSE NormComps(rest, initial, new)

\* posixpath.normpath
Normpath(path) ==
    IF path = <<>> THEN <<".">>
    ELSE LET initial == IF ~StartsWith(path, <<SEP>>) THEN 0
                        ELSE IF StartsWith(path, <<SEP, SEP>>)
                                /\ ~StartsWith(path, <<SEP, SEP, SEP>>) THEN 2
                        ELSE 1
             comps == NormComps(Split(path, <<SEP>>), initial, <<>>)
             joined == [i \in 1..initial |-> SEP] \o Join(comps, <<SEP>>)
         IN  IF joined = <<>> THEN <<".">> ELSE joined

\* posixpath.join(a, b)
PathJoin(a, b) ==
    IF StartsWith(b, <<SEP>>) THEN b
    ELSE IF a = <<>> \/ a[Len(a)] = SEP THEN a \o b
    ELSE a \o <<SEP>> \o b

\* posixpath.abspath, with os.getcwd() = dir
Abspath(path, dir) ==
    IF StartsWith(path, <<SEP>>) THEN Normpath(path) ELSE Normpath(PathJoin(dir, path))

RECURSIVE CommonLen(_, _)
\* len(commonprefix([a, b])) for two component lists
CommonLen(a, b) ==
    IF a = <<>> \/ b = <<>> \/ Head(a) # Head(b) THEN 0
    ELSE 1 + CommonLen(Tail(a), Tail(b))

\* posixpath.relpath(path, start) with os.getcwd() = dir: [raised, value]
Relpath(path, start, dir) ==
    IF path = <<>> THEN [raised |-> TRUE, value |-> <<>>]   \* ValueError("no path specified")
    ELSE LET start_list == SelectNonEmpty(Split(Abspath(start, dir), <<SEP>>))
             path_list == SelectNonEmpty(Split(Abspath(path, dir), <<SEP>>))
             i == CommonLen(start_list, path_list)
             rel_list == [k \in 1..(Len(start_list) - i) |-> <<".", ".">>]
                            \o SubSeq(path_list, i + 1, Len(path_list))
         IN  [raised |-> FALSE,
              value |-> IF rel_list = <<>> THEN <<".">> ELSE Join(rel_list, <<SEP>>)]

\* posixpath.splitext(p)[0]
SplitextRoot(p) ==
    LET sepIndex == RFind(p, SEP)
        dotIndex == RFind(p, EXTSEP)
    IN  IF dotIndex > sepIndex
           /\ \E k \in (sepIndex + 1)..(dotIndex - 1) : p[k] # EXTSEP
        THEN SubSeq(p, 1, dotIndex - 1)
        ELSE p

-----------------------------------------------------------------------------
(* DjangoNeotestAdapter.id_to_unittest_args *)

\* Mutant: the path is made relative the way Path.relative_to does, which refuses
\* a path that is not below the current dir
RelativeDotted_RelativeTo(path, dir) ==
    LET relative_file == Relpath(path, dir, dir)
    IN  IF relative_file.raised \/ StartsWith(relative_file.value, <<".", ".">>)
        THEN [raised |-> TRUE, value |-> <<>>]
        ELSE [raised |-> FALSE,
              value |-> Replace(SplitextRoot(relative_file.value), SEP, ".")]

\* lines 25-27 and 33-35: the dotted path of a file, relative to the current dir
RelativeDotted(path, dir) ==
    LET relative_file == Relpath(path, dir, dir)
    IN  IF relative_file.raised THEN relative_file
        ELSE [raised |-> FALSE,
              value |-> Replace(SplitextRoot(relative_file.value), SEP, ".")]

\* Mutant: the file branch keeps the extension (splitext left out)
IdToUnittestArgs_KeepExt(id, dir, isfile) ==
    LET parts == Split(id, <<":", ":">>)
        path == Head(parts)
        child_ids == Tail(parts)
        rel == Relpath(path, dir, dir)
        d == RelativeDotted(path, dir)
    IN  IF child_ids = <<>>
        THEN IF isfile
             THEN IF rel.raised THEN rel
                  ELSE [raised |-> FALSE, value |-> <<Replace(rel.value, SEP, ".")>>]
             ELSE [raised |-> FALSE, value |-> <<id>>]
        ELSE IF d.raised THEN d
             ELSE [raised |-> FALSE,
                   value |-> <<Join(<<d.value>> \o child_ids, <<".">>)>>]

\* Mutant: only the first child segment is appended
IdToUnittestArgs_FirstChild(id, dir, isfile) ==
    LET parts == Split(id, <<":", ":">>)
        path == Head(parts)
        child_ids == Tail(parts)
        d == RelativeDotted(path, dir)
    IN  IF child_ids = <<>>
        THEN IF isfile
             THEN IF d.raised THEN d ELSE [raised |-> FALSE, value |-> <<d.value>>]
             ELSE [raised |-> FALSE, value |-> <<id>>]
        ELSE IF d.raised THEN d
             ELSE [raised |-> FALSE,
                   value |-> <<Join(<<d.value, child_ids[1]>>, <<".">>)>>]

\* Mutant: the isfile test is left out, every identifier without children is dotted
IdToUnittestArgs_NoIsfile(id, dir, isfile) ==
    LET parts == Split(id, <<":", ":">>)
        path == Head(parts)
        child_ids == Tail(parts)
        d == RelativeDotted(path, dir)
    IN  IF d.raised THEN d
        ELSE [raised |-> FALSE, value |-> <<Join(<<d.value>> \o child_ids, <<".">>)>>]

IdToUnittestArgs(id, dir, isfile) ==
    LET parts == Split(id, <<":", ":">>)
        path == Head(parts)
        child_ids == Tail(parts)
    IN  IF child_ids = <<>>
        THEN IF isfile
             THEN LET d == RelativeDotted(path, dir)
                  IN  IF d.raised THEN d ELSE [raised |-> FALSE, value |-> <<d.value>>]
             ELSE [raised |-> FALSE, value |-> <<id>>]
        ELSE LET d == RelativeDotted(path, dir)
             IN  IF d.raised THEN d
                 ELSE [raised |-> FALSE,
                       value |-> <<Join(<<d.value>> \o child_ids, <<".">>)>>]

-----------------------------------------------------------------------------------------------------------------------------------------------------
(* Inputs of id_to_unittest_args *)

\* path components: two directory names, a file name with extension, "..", and "" (doubled or trailing separator)
Comps == {<<"p">>, <<"t">>, <<"f", ".", "y">>, <<".", ".">>, <<>>}
Cwds == {<<"/", "p">>, <<"/", "p", "/", "t">>}

SeqsUpTo(S, n) == UNION {[1..k -> S] : k \in 0..n}

\* the k-th child segment is a name (class, method, ...) or the empty segment of "path::"
ChildName(k) == IF k = 1 THEN <<"A">> ELSE IF k = 2 THEN <<"b">> ELSE <<"c">>
ChildSeqs ==
    UNION {{ch \in [1..k -> {ChildName(i) : i \in 1..k} \cup {<<>>}] :
                \A i \in 1..k : ch[i] \in {ChildName(i), <<>>}} : k \in 0..MaxChildren}

\* absolute paths, and the empty path of a malformed identifier
Paths == {<<>>} \cup {<<SEP>> \o Join(comps, <<SEP>>) : comps \in SeqsUpTo(Comps, MaxComps)}

CaseIdOf(path, children) == Join(<<path>> \o children, <<":", ":">>)

CaseIds == {CaseIdOf(path, ch) : path \in Paths, ch \in ChildSeqs}

\* os.path.isfile can answer True only for a path naming a directory entry
CanBeFile(path) ==
    /\ path # <<>>
    /\ LET comps == Split(path, <<SEP>>)
       IN  comps[Len(comps)] \notin {<<>>, <<".">>, <<".", ".">>}

PathPortion(id) == Head(Split(id, <<":", ":">>))
ChildIds(id) == Tail(Split(id, <<":", ":">>))

NotCalled == [raised |-> FALSE, value |-> <<>>]
NoTest == [file |-> <<>>, class |-> <<>>, method |-> <<>>, django |-> FALSE]
NoReturn == [some |-> FALSE, value |-> <<>>]

\* state of a fresh result object and of a run that has not started
Fresh ==
    /\ argv = NotCalled
    /\ neo_results = <<>>
    /\ streamed = <<>>
    /\ returned = NoReturn
    /\ test = NoTest
    /\ outcomes = 0
    /\ emits = 0
    /\ op = "none"
    /\ err = <<>>
    /\ calls = 0
    /\ done = <<>>

InitArgs ==
    /\ case_id \in CaseIds
    /\ cwd \in Cwds
    /\ isFile \in (IF CanBeFile(PathPortion(case_id)) THEN BOOLEAN ELSE {FALSE})
    /\ pc = "args"
    /\ Fresh

Translate ==
    /\ pc = "args"
    /\ argv' = IdToUnittestArgs(case_id, cwd, isFile)
    /\ pc' = "argsDone"
    /\ op' = "id_to_unittest_args"
    /\ UNCHANGED <<case_id, cwd, isFile, neo_results, streamed, returned,
                   test, outcomes, emits, err, calls, done>>

NextArgs == Translate

SpecArgs == InitArgs /\ [][NextArgs]_vars

-----------------------------------------------------------------------------
(* NeotestTextTestResult *)

\* str(PurePosixPath(p)): repeated separators and "." components collapse, ".." stays
PurePathStr(p) ==
    LET initial == IF ~StartsWith(p, <<SEP>>) THEN 0
                   ELSE IF StartsWith(p, <<SEP, SEP>>)
                           /\ ~StartsWith(p, <<SEP, SEP, SEP>>) THEN 2
                   ELSE 1
        comps == SelectSeq(Split(p, <<SEP>>), LAMBDA x : x # <<>> /\ x # <<".">>)
        joined == [i \in 1..initial |-> SEP] \o Join(comps, <<SEP>>)
    IN  IF joined = <<>> THEN <<".">> ELSE joined

\* str(Path(p).absolute()) with os.getcwd() = dir
PathAbsolute(p, dir) ==
    IF StartsWith(p, <<SEP>>) THEN PurePathStr(p)
    ELSE PurePathStr(dir \o <<SEP>> \o p)

\* inspect.getmodule(case).__file__ of the test module, and a file of library code
TestFile == <<"/", "p", "/", "t", "/", "f", ".", "y">>
LibFile == <<"/", "l", ".", "y">>

\* The test case objects of the module: two methods of a django.test.TestCase
\* subclass, two methods of a unittest.TestCase / SimpleTestCase subclass
Cases ==
    {[file |-> TestFile, class |-> <<"A">>, method |-> <<"a">>, django |-> TRUE],
     [file |-> TestFile, class |-> <<"A">>, method |-> <<"b">>, django |-> TRUE],
     [file |-> TestFile, class |-> <<"S">>, method |-> <<"a">>, django |-> FALSE],
     [file |-> TestFile, class |-> <<"S">>, method |-> <<"b">>, django |-> FALSE]}

\* case_file for every module file and current dir, tabulated
AbsoluteFile == [dir \in Cwds, file \in {c.file : c \in Cases} |-> PathAbsolute(file, dir)]

\* case_file: the absolute path of the module file of the case
CaseFile(case) == AbsoluteFile[cwd, case.file]

\* case_id_elems
CaseIdElems(case) ==
    LET file == CaseFile(case)
        elems == <<file, case.class>>
    IN  IF case.django THEN Append(elems, case.method) ELSE elems

\* case_id
CaseId(case) == Join(CaseIdElems(case), <<":", ":">>)

RECURSIVE NextMatch(_, _, _)
\* next(frame.lineno - 1 for frame in reversed(summary) if frame.filename == case_file),
\* scanning from index i down: [raised, value]
NextMatch(summary, i, case_file) ==
    IF i = 0 THEN [raised |-> TRUE, value |-> 0]          \* StopIteration
    ELSE IF summary[i].filename = case_file
         THEN [raised |-> FALSE, value |-> summary[i].lineno - 1]
         ELSE NextMatch(summary, i - 1, case_file)

RECURSIVE FirstMatch(_, _, _)
\* scan of the frames from index i up (used by the mutant below)
FirstMatch(summary, i, case_file) ==
    IF i > Len(summary) THEN [raised |-> TRUE, value |-> 0]
    ELSE IF summary[i].filename = case_file
         THEN [raised |-> FALSE, value |-> summary[i].lineno - 1]
         ELSE FirstMatch(summary, i + 1, case_file)

\* Mutant: the frames are scanned in call order (reversed() left out)
ErrorLine_Forward(summary, case_file) == FirstMatch(summary, 1, case_file)

\* Mutant: next() is given a default, so a traceback without a matching frame yields a line
ErrorLine_Default(summary, case_file) ==
    LET m == NextMatch(summary, Len(summary), case_file)
    IN  IF m.raised THEN [raised |-> FALSE, value |-> 0] ELSE m

ErrorLine(summary, case_file) == NextMatch(summary, Len(summary), case_file)

\* Mutant: the passed record is built like the failed one, with an empty errors list
PassedRecord_WithErrors == [status |-> "PASSED", errors |-> <<>>, short |-> "None"]

PassedRecord == [status |-> "PASSED"]
FailedRecord(error_line) ==
    [status |-> "FAILED",
     errors |-> <<[message |-> "None", line |-> error_line]>>,
     short |-> "None"]

\* d[key] = value on a dict
SetItem(d, key, value) ==
    [k \in (DOMAIN d) \cup {key} |-> IF k = key THEN value ELSE d[k]]

-----------------------------------------------------------------------------
(* The run: inputs *)

\* traceback.extract_tb(err[2]): frames in call order, outermost first
Frames ==
    {[filename |-> TestFile, lineno |-> 10],
     [filename |-> TestFile, lineno |-> 42],
     [filename |-> LibFile, lineno |-> 7]}
Tracebacks == SeqsUpTo(Frames, MaxFrames)

FileId == TestFile
BadId == <<":", ":", "A">>
RunIds == {FileId, BadId}

Init ==
    /\ case_id \in RunIds
    /\ cwd = <<"/", "p">>
    /\ isFile = (case_id = FileId)
    /\ pc = "start"
    /\ Fresh

-----------------------------------------------------------------------------
(* The run: steps *)

\* run(), lines 118-123: translate args[-1]; an error of the translation leaves run()
RunTests ==
    /\ pc = "start"
    /\ argv' = IdToUnittestArgs(case_id, cwd, isFile)
    /\ pc' = IF argv'.raised THEN "aborted" ELSE "running"
    /\ op' = "run"
    /\ UNCHANGED <<case_id, cwd, isFile, neo_results, streamed, returned,
                   test, outcomes, emits, err, calls, done>>

\* the runner starts the next test case of the suite
StartTest(t) ==
    /\ pc = "running"
    /\ test = NoTest
    /\ calls < MaxCalls
    /\ test' = t
    /\ outcomes' = 0
    /\ emits' = 0
    /\ op' = "startTest"
    /\ UNCHANGED <<case_id, cwd, isFile, pc, argv, neo_results, streamed, returned,
                   err, calls, done>>

\* Mutant: the record is stored but not passed to the stream callback
AddProblem_NoStream(name, tb) ==
    /\ pc = "running"
    /\ test # NoTest
    /\ op \in {"startTest", "addFailure", "addError"}
    /\ calls < MaxCalls
    /\ op' = name
    /\ err' = tb
    /\ calls' = calls + 1
    /\ outcomes' = outcomes + 1
    /\ LET key == CaseId(test)
           error_line == ErrorLine(tb, CaseFile(test))
       IN  IF error_line.raised
           THEN /\ pc' = "aborted"
                /\ UNCHANGED <<neo_results, streamed, emits>>
           ELSE /\ neo_results' = SetItem(neo_results, key, FailedRecord(error_line.value))
                /\ UNCHANGED <<streamed, emits>>
                /\ pc' = pc
    /\ UNCHANGED <<case_id, cwd, isFile, argv, returned, test, done>>

\* body shared by addFailure (59-77) and addError (79-98)
AddProblem(name, tb) ==
    /\ pc = "running"
    /\ test # NoTest
    /\ op \in {"startTest", "addFailure", "addError"}
    /\ calls < MaxCalls
    /\ op' = name
    /\ err' = tb
    /\ calls' = calls + 1
    /\ outcomes' = outcomes + 1
    /\ LET key == CaseId(test)
           case_file == CaseFile(test)
           error_line == ErrorLine(tb, case_file)
       IN  IF error_line.raised
           THEN /\ pc' = "aborted"
                /\ UNCHANGED <<neo_results, streamed, emits>>
           ELSE /\ neo_results' = SetItem(neo_results, key, FailedRecord(error_line.value))
                /\ streamed' = Append(streamed, <<key, neo_results'[key]>>)
                /\ emits' = emits + 1
                /\ pc' = pc
    /\ UNCHANGED <<case_id, cwd, isFile, argv, returned, test, done>>

AddFailure == \E tb \in Tracebacks : AddProblem("addFailure", tb)

AddError == \E tb \in Tracebacks : AddProblem("addError", tb)

\* Mutant: the record is streamed but not kept in neo_results
AddSuccess_NoStore ==
    /\ pc = "running"
    /\ test # NoTest
    /\ op = "startTest"
    /\ calls < MaxCalls
    /\ op' = "addSuccess"
    /\ calls' = calls + 1
    /\ outcomes' = outcomes + 1
    /\ streamed' = Append(streamed, <<CaseId(test), PassedRecord>>)
    /\ emits' = emits + 1
    /\ UNCHANGED <<case_id, cwd, isFile, pc, argv, returned, test, err, done, neo_results>>

\* addSuccess (100-105)
AddSuccess ==
    /\ pc = "running"
    /\ test # NoTest
    /\ op = "startTest"
    /\ calls < MaxCalls
    /\ op' = "addSuccess"
    /\ calls' = calls + 1
    /\ outcomes' = outcomes + 1
    /\ neo_results' = SetItem(neo_results, CaseId(test), PassedRecord)
    /\ streamed' = Append(streamed, <<CaseId(test), neo_results'[CaseId(test)]>>)
    /\ emits' = emits + 1
    /\ UNCHANGED <<case_id, cwd, isFile, pc, argv, returned, test, err, done>>

\* addSkip, addExpectedFailure, addUnexpectedSuccess: inherited from TextTestResult
AddSkip ==
    /\ pc = "running"
    /\ test # NoTest
    /\ op = "startTest"
    /\ calls < MaxCalls
    /\ op' = "addSkip"
    /\ calls' = calls + 1
    /\ outcomes' = outcomes + 1
    /\ UNCHANGED <<case_id, cwd, isFile, pc, argv, neo_results, streamed, returned,
                   test, emits, err, done>>

\* the runner finishes the current test case
StopTest ==
    /\ pc = "running"
    /\ test # NoTest
    /\ outcomes > 0
    /\ done' = Append(done, [test |-> test, emits |-> emits, passed |-> op = "addSuccess"])
    /\ test' = NoTest
    /\ err' = <<>>
    /\ op' = "stopTest"
    /\ UNCHANGED <<case_id, cwd, isFile, pc, argv, neo_results, streamed, returned,
                   outcomes, emits, calls>>

\* suite_result (114-115) and the return of run() (124-125)
Return ==
    /\ pc = "running"
    /\ test = NoTest
    /\ returned' = [some |-> TRUE, value |-> neo_results]
    /\ pc' = "returned"
    /\ op' = "return"
    /\ UNCHANGED <<case_id, cwd, isFile, argv, neo_results, streamed,
                   test, outcomes, emits, err, calls, done>>

Next ==
    \/ RunTests
    \/ \E t \in Cases : StartTest(t)
    \/ AddFailure
    \/ AddError
    \/ AddSuccess
    \/ AddSkip
    \/ StopTest
    \/ Return

Spec == Init /\ [][Next]_vars

-----------------------------------------------------------------------------
(* Properties of id_to_unittest_args (SpecArgs) *)

Translated == pc = "argsDone"

CompsOf(path) == SelectNonEmpty(Split(path, <<SEP>>))
LastComp(path) == LET comps == Split(path, <<SEP>>) IN comps[Len(comps)]

\* the absolute path is not below the current dir
OutsideCwd(path, dir) ==
    LET pl == CompsOf(Abspath(path, dir))
        cl == CompsOf(dir)
    IN  ~(Len(cl) <= Len(pl) /\ SubSeq(pl, 1, Len(cl)) = cl)

EmptyChild(id) == \E i \in 1..Len(ChildIds(id)) : ChildIds(id)[i] = <<>>

\* the last path component is a name without any "."
NoExtension(path) ==
    /\ path # <<>>
    /\ LastComp(path) # <<>>
    /\ \A i \in 1..Len(LastComp(path)) : LastComp(path)[i] # EXTSEP

Malformed(id, dir) ==
    OutsideCwd(PathPortion(id), dir) \/ EmptyChild(id) \/ NoExtension(PathPortion(id))

\* the label the testable properties describe for a path: relative to the
\* current dir, extension removed, separators replaced by dots
ModulePath(path, dir) == Replace(SplitextRoot(Relpath(path, dir, dir).value), SEP, ".")

\* C1: an identifier without child segment whose path is an existing file is
\* translated to exactly one label, the file's path relative to the current
\* dir with the extension removed and every separator replaced by a dot;
\* "/p/t/f.y" with current dir "/p" gives <<"t.f">>.
C1_FileLabel ==
    (Translated /\ ChildIds(case_id) = <<>> /\ isFile) =>
        /\ ~argv.raised
        /\ argv.value = <<ModulePath(PathPortion(case_id), cwd)>>
        /\ \A i \in 1..Len(argv.value[1]) : argv.value[1][i] # SEP
        /\ (case_id = TestFile /\ cwd = <<"/", "p">>) => argv.value = << <<"t", ".", "f">> >>

C1_Witness ==
    /\ Translated /\ isFile
    /\ case_id = TestFile
    /\ cwd = <<"/", "p">>
    /\ argv = [raised |-> FALSE, value |-> << <<"t", ".", "f">> >>]

\* C2 as stated: every identifier with one or more child segments is translated
\* to the single label <module path>.<child1>.<child2>..., file on disk or not.
C2_Original ==
    (Translated /\ ChildIds(case_id) # <<>>) =>
        /\ ~argv.raised
        /\ argv.value = <<Join(<<ModulePath(PathPortion(case_id), cwd)>> \o ChildIds(case_id), <<".">>)>>

\* C2 (amended): every identifier with one or more child segments and a
\* non-empty path portion is translated to the single label
\* <module path>.<child1>.<child2>..., children in their order, whether or not
\* the file exists; with an empty path portion the translation raises.
C2_ChildLabel ==
    (Translated /\ ChildIds(case_id) # <<>>) =>
        IF PathPortion(case_id) = <<>> THEN argv.raised
        ELSE /\ ~argv.raised
             /\ argv.value =
                  <<Join(<<ModulePath(PathPortion(case_id), cwd)>> \o ChildIds(case_id), <<".">>)>>
             /\ (PathPortion(case_id) = TestFile /\ cwd = <<"/", "p">>
                    /\ ChildIds(case_id) = << <<"A">>, <<"b">> >>)
                  => argv.value = << <<"t", ".", "f", ".", "A", ".", "b">> >>

C2_Witness ==
    /\ Translated /\ ~isFile
    /\ case_id = TestFile \o <<":", ":", "A", ":", ":", "b">>
    /\ cwd = <<"/", "p">>
    /\ argv = [raised |-> FALSE, value |-> << <<"t", ".", "f", ".", "A", ".", "b">> >>]

\* C3: an identifier without child segment whose path is not an existing file
\* is returned unchanged, as the only element of the list.
C3_DirectoryUnchanged ==
    (Translated /\ ChildIds(case_id) = <<>> /\ ~isFile) =>
        argv = [raised |-> FALSE, value |-> <<case_id>>]

C3_Witness ==
    /\ Translated /\ ~isFile
    /\ case_id = <<"/", "p", "/", "t">>
    /\ argv = [raised |-> FALSE, value |-> << <<"/", "p", "/", "t">> >>]

\* C10 as stated: for a malformed or out-of-project identifier (path outside
\* the current dir, empty child segment, path without extension) the
\* translation raises instead of returning a label.
C10_Original == (Translated /\ Malformed(case_id, cwd)) => argv.raised

\* C10 (amended): identifiers are not validated; the translation raises exactly
\* when there is a child segment and the path portion is empty, and in every
\* other case, a path outside the current dir, an empty child segment or a path
\* without extension included, it returns one label ("/t/f.y" from "/p" gives
\* "...t.f", "/p/t::" gives "t.").
C10_NoValidation ==
    Translated =>
        /\ argv.raised = (ChildIds(case_id) # <<>> /\ PathPortion(case_id) = <<>>)
        /\ ~argv.raised => Len(argv.value) = 1
        /\ (case_id = <<"/", "t", "/", "f", ".", "y">> /\ cwd = <<"/", "p">> /\ isFile)
              => argv.value = << <<".", ".", ".", "t", ".", "f">> >>
        /\ (case_id = <<"/", "p", "/", "t", ":", ":">> /\ cwd = <<"/", "p">>)
              => argv.value = << <<"t", ".">> >>

C10_Witness ==
    /\ Translated /\ isFile
    /\ case_id = <<"/", "t", "/", "f", ".", "y">>
    /\ cwd = <<"/", "p">>
    /\ OutsideCwd(PathPortion(case_id), cwd)
    /\ argv = [raised |-> FALSE, value |-> << <<".", ".", ".", "t", ".", "f">> >>]

-----------------------------------------------------------------------------
(* Properties of the run (Spec) *)

Streaming == op \in {"addSuccess", "addFailure", "addError"}

LastCall == streamed[Len(streamed)]

HasOwnFrame(tb, file) == \E i \in 1..Len(tb) : tb[i].filename = file

\* m holds, for every key of the log, the record last logged for it, and nothing else
IsAccumulationOf(m, log) ==
    /\ DOMAIN m = {log[i][1] : i \in 1..Len(log)}
    /\ \A i \in 1..Len(log) :
          (\A j \in (i + 1)..Len(log) : log[j][1] # log[i][1]) => m[log[i][1]] = log[i][2]

\* C4: a record is in the mapping exactly when it has been streamed, during the
\* run and at its return: the mapping run() returns has the streamed case
\* identifiers as keys and, for each, the record last streamed for it, and
\* nothing is returned before the run's last stream call.
C4_StreamedThenReturned ==
    /\ pc \in {"running", "aborted", "returned"} => IsAccumulationOf(neo_results, streamed)
    /\ returned.some => (pc = "returned" /\ IsAccumulationOf(returned.value, streamed))
    /\ pc = "returned" => returned.some

C4_Witness ==
    /\ pc = "returned"
    /\ Len(streamed) = 2
    /\ streamed[1][1] = streamed[2][1]
    /\ streamed[1][2] # streamed[2][2]
    /\ returned.value[streamed[2][1]] = streamed[2][2]

\* C5: after addFailure or addError with a traceback that has a frame in the
\* test's own file, the emitted record is FAILED, short null, errors one entry
\* {message: null, line: L - 1}, L the line of the last frame in call order
\* whose filename is the test's file.
C5_InnermostOwnFrame ==
    (op \in {"addFailure", "addError"} /\ HasOwnFrame(err, CaseFile(test))) =>
        \E i \in 1..Len(err) :
            /\ err[i].filename = CaseFile(test)
            /\ \A j \in (i + 1)..Len(err) : err[j].filename # CaseFile(test)
            /\ pc = "running"
            /\ streamed # <<>>
            /\ LastCall[2] = [status |-> "FAILED",
                              errors |-> <<[message |-> "None", line |-> err[i].lineno - 1]>>,
                              short |-> "None"]
            /\ neo_results[LastCall[1]] = LastCall[2]

C5_Witness ==
    /\ op = "addFailure"
    /\ err = <<[filename |-> TestFile, lineno |-> 10],
               [filename |-> TestFile, lineno |-> 42]>>
    /\ LastCall[2].errors = <<[message |-> "None", line |-> 41]>>

\* C6: addSuccess makes exactly one stream call for the test, with a record
\* whose only key is status, PASSED, which is also the mapping's entry; a test
\* that passed has been streamed exactly once when it completes.
C6_PassedRecord ==
    /\ op = "addSuccess" =>
          /\ emits = 1
          /\ streamed # <<>>
          /\ DOMAIN LastCall[2] = {"status"}
          /\ LastCall[2].status = "PASSED"
          /\ neo_results[LastCall[1]] = LastCall[2]
    /\ \A i \in 1..Len(done) : done[i].passed => done[i].emits = 1

C6_Witness ==
    /\ done # <<>>
    /\ done[1].passed
    /\ streamed = << <<CaseId(done[1].test), [status |-> "PASSED"]>> >>

\* C7 as stated: every completed test case has caused exactly one stream call
\* and has exactly one entry of its own in the mapping.
C7_Original ==
    /\ \A i \in 1..Len(done) :
          done[i].emits = 1 /\ CaseId(done[i].test) \in DOMAIN neo_results
    /\ test = NoTest =>
          Cardinality(DOMAIN neo_results) = Cardinality({done[i].test : i \in 1..Len(done)})

\* C7 (amended): a record is emitted once per addSuccess, addFailure or addError
\* call that completes: the call appends exactly one stream call, keyed by the
\* case's identifier, and sets that key of the mapping to the streamed record,
\* leaving the other keys alone; every other step (skip, failed lookup, start,
\* stop, return) streams nothing and leaves the mapping unchanged.
C7_OncePerCallback ==
    [][IF calls' = calls + 1 /\ op' \in {"addSuccess", "addFailure", "addError"}
          /\ pc' = "running"
       THEN /\ Len(streamed') = Len(streamed) + 1
            /\ SubSeq(streamed', 1, Len(streamed)) = streamed
            /\ LET call == streamed'[Len(streamed')]
               IN  /\ call[1] = CaseId(test)
                   /\ DOMAIN neo_results' = (DOMAIN neo_results) \cup {call[1]}
                   /\ neo_results'[call[1]] = call[2]
                   /\ \A k \in (DOMAIN neo_results) \ {call[1]} :
                         neo_results'[k] = neo_results[k]
       ELSE streamed' = streamed /\ neo_results' = neo_results]_vars

C7_Witness ==
    /\ Len(done) = 1
    /\ done[1].emits = 2
    /\ Len(streamed) = 2
    /\ Cardinality(DOMAIN neo_results) = 1

\* C8: the key of a streamed record, split on "::", is the triple
\* (absolute file path, class name, method name) of the test case it is for.
C8_KeyRoundTrip ==
    (Streaming /\ pc = "running") =>
        Split(LastCall[1], <<":", ":">>)
            = <<PathAbsolute(test.file, cwd), test.class, test.method>>

\* C9: addFailure or addError with a traceback that has no frame in the test's
\* own file stores and streams nothing and aborts the run; an aborted run never
\* returns a mapping, and what was streamed before stays streamed.
C9_NoFrameAborts ==
    /\ [](pc = "aborted" => ~returned.some)
    /\ [][(calls' = calls + 1 /\ op' \in {"addFailure", "addError"}
              /\ ~HasOwnFrame(err', CaseFile(test)))
            => (/\ pc' = "aborted"
                /\ streamed' = streamed
                /\ neo_results' = neo_results
                /\ ~returned'.some)]_vars

C9_Witness ==
    /\ pc = "aborted"
    /\ op \in {"addFailure", "addError"}
    /\ ~HasOwnFrame(err, CaseFile(test))
    /\ Len(done) = 1
    /\ Len(streamed) = 1
    /\ DOMAIN neo_results = {streamed[1][1]}
    /\ ~returned.some

====
